---- MODULE Spec2Model ----
(***************************************************************************)
(* A model of the Solana arbitrage bot (solana-arbitrage-bot/src).         *)
(*                                                                         *)
(* Part 1 (Spec, FairSpec): ArbitrageEngine::start as a state machine:     *)
(* market monitoring initialisation, then the endless loop of              *)
(* arbitrage_cycle.  One action per awaited call or leaf call of the       *)
(* engine.  The leaf operations whose bodies in the repository are         *)
(* placeholders (fetch_market_state, build_arbitrage_transaction,          *)
(* simulate_transaction, send_transaction, confirm_transaction) are        *)
(* modelled by their signatures: each returns any Ok value of its type or  *)
(* an Err.  The engine methods the repository calls but does not define    *)
(* (is_profitable, check_direct_arbitrage, check_triangular_arbitrage,     *)
(* check_flash_loan_arbitrage) are modelled from the specification.        *)
(*                                                                         *)
(* Part 2 (StrategySpec): the three strategies (analyze, validate) and     *)
(* TransactionBuilder::build_arbitrage_transaction, applied to a market    *)
(* state table and a queue of pending transactions drawn from bounded      *)
(* sets; the position sizing of two strategies, the build of a three-leg   *)
(* route and initialize_strategies of main.rs, applied to inputs of their  *)
(* own.                                                                    *)
(*                                                                         *)
(* Part 3 (ProfitSpec): ProfitCalculator::is_profitable and                *)
(* calculate_slippage, applied to settings, opportunities, market states   *)
(* and amounts drawn from bounded sets.                                    *)
(*                                                                         *)
(* Part 4 (DexSpec): DexRegistry::get_best_execution_venue and             *)
(* get_cross_dex_opportunities, applied to answers of the venues drawn     *)
(* from bounded sets.                                                      *)
(*                                                                         *)
(* f64 values are modelled in fixed point, rounded toward minus infinity;  *)
(* each definition names its unit.                                         *)
(***************************************************************************)
EXTENDS Integers, Sequences, FiniteSets, TLC

VARIABLES
    pc,             \* position of start(): the call that comes next
    init_i,         \* init_market_monitoring: index of the next market
    market_states,  \* Arc<RwLock<Vec<MarketState>>>: the Market State Cache
    lock,           \* how the engine task holds the cache's RwLock
    opportunities,  \* arbitrage_cycle: the candidates of this cycle
    idx,            \* arbitrage_cycle: index of the candidate in hand
    now,            \* the last reading of SystemTime::now(), in whole seconds
    log,            \* calls made in this cycle, in order, with results
    exec_result,    \* what execute_arbitrage returned last in this cycle
    strategy_market_states, \* the strategies' field market_states
    pending_transactions,   \* FrontRunningStrategy::pending_transactions
    analyzed,       \* the last call of a strategy's analyze and its result
    validated,      \* the last call of a strategy's validate and its result
    built,          \* the last call of build_arbitrage_transaction
    sized,          \* the last call of a strategy's position sizing
    initialized,    \* the last call of initialize_strategies
    settings,       \* ProfitCalculator::settings
    scored,         \* the last call of ProfitCalculator::is_profitable
    slipped,        \* the last two calls of ProfitCalculator::calculate_slippage
    best_venue,     \* the last call of DexRegistry::get_best_execution_venue
    cross_dex       \* the last call of DexRegistry::get_cross_dex_opportunities

\* the engine task's own variables, the clock apart
engine_vars == <<pc, init_i, market_states, lock, opportunities, idx, log,
                 exec_result>>

strategy_vars == <<strategy_market_states, pending_transactions, analyzed,
                   validated, built, sized, initialized>>

profit_vars == <<settings, scored, slipped>>

dex_vars == <<best_venue, cross_dex>>

vars == <<engine_vars, now, strategy_vars, profit_vars, dex_vars>>

(***************************************************************************)
(* Bounds of the model.                                                    *)
(***************************************************************************)
\* the clock's last reading
MaxTime == 6
\* candidates one cycle may find
MaxOpps == 2

(***************************************************************************)
(* Values.                                                                 *)
(***************************************************************************)
\* Pubkey::default(): the placeholder market of borrow and repay legs
DefaultPubkey == 0

\* settings.trading.markets.whitelisted_markets, as parsed public keys
WhitelistedMarkets == <<1, 2>>

\* settings.trading.execution.flash_loan_enabled
flash_loan_enabled == TRUE

\* MarketState, as the engine stores it
MarketState(market, t) == [market_address |-> market, last_update |-> t]

\* ExecutionResult and Result<ExecutionResult, ArbitrageError>
NoResult == [kind |-> "None", success |-> FALSE, error |-> "", signature |-> FALSE]
ErrResult == [kind |-> "Err", success |-> FALSE, error |-> "", signature |-> FALSE]
OkResult(success, error, signature) ==
    [kind |-> "Ok", success |-> success, error |-> error, signature |-> signature]

\* a call: which, for which candidate, its result, and for a validation the
\* candidate's age in seconds when it was made
Event(op, i, res, age) == [op |-> op, opp |-> i, res |-> res, age |-> age]

(***************************************************************************)
(* find_opportunities.                                                     *)
(***************************************************************************)
\* ArbitrageOpportunity: the fields the engine reads
Opportunity(kind, route, t) == [kind |-> kind, route |-> route, timestamp |-> t]

\* check_direct_arbitrage(market1, market2), when it finds one
check_direct_arbitrage(m1, m2, t) ==
    Opportunity("direct", <<m1.market_address, m2.market_address>>, t)

\* check_triangular_arbitrage(market1, market2, market3), when it finds one
check_triangular_arbitrage(m1, m2, m3, t) ==
    Opportunity("triangular",
                <<m1.market_address, m2.market_address, m3.market_address>>, t)

\* check_flash_loan_arbitrage(market), when it finds one: borrow, buy, sell,
\* repay, the borrow and repay legs on the placeholder market
check_flash_loan_arbitrage(m, t) ==
    Opportunity("flash_loan",
                <<DefaultPubkey, m.market_address, m.market_address, DefaultPubkey>>, t)

\* the pairs i < j in the order of the two nested loops
RECURSIVE PairsFrom(_, _, _)
PairsFrom(n, i, j) ==
    IF i > n THEN <<>>
    ELSE IF j > n THEN PairsFrom(n, i + 1, i + 2)
    ELSE <<(<<i, j>>)>> \o PairsFrom(n, i, j + 1)

\* the triples of pairwise distinct indices in the order of the three loops
RECURSIVE TriplesFrom(_, _, _, _)
TriplesFrom(n, i, j, k) ==
    IF i > n THEN <<>>
    ELSE IF j > n THEN TriplesFrom(n, i + 1, 1, 1)
    ELSE IF k > n THEN TriplesFrom(n, i, j + 1, 1)
    ELSE (IF i # j /\ j # k /\ i # k THEN <<(<<i, j, k>>)>> ELSE <<>>)
         \o TriplesFrom(n, i, j, k + 1)

\* find_direct_arbitrage: every call of check_direct_arbitrage, in order
find_direct_arbitrage(ms, t) ==
    LET p == PairsFrom(Len(ms), 1, 2)
    IN  [x \in 1..Len(p) |-> check_direct_arbitrage(ms[p[x][1]], ms[p[x][2]], t)]

\* find_triangular_arbitrage: every call of check_triangular_arbitrage
find_triangular_arbitrage(ms, t) ==
    LET p == TriplesFrom(Len(ms), 1, 1, 1)
    IN  [x \in 1..Len(p) |->
            check_triangular_arbitrage(ms[p[x][1]], ms[p[x][2]], ms[p[x][3]], t)]

\* find_flash_loan_arbitrage: every call of check_flash_loan_arbitrage
find_flash_loan_arbitrage(ms, t) ==
    [x \in 1..Len(ms) |-> check_flash_loan_arbitrage(ms[x], t)]

\* the checks find_opportunities makes, in the order it extends its list
Candidates(ms, t) ==
    find_direct_arbitrage(ms, t) \o find_triangular_arbitrage(ms, t)
    \o (IF flash_loan_enabled THEN find_flash_loan_arbitrage(ms, t) ELSE <<>>)

\* the elements of c whose index is in S, in order
Pick(c, S) ==
    LET F[i \in 0..Len(c)] ==
            IF i = 0 THEN <<>>
            ELSE IF i \in S THEN Append(F[i - 1], c[i]) ELSE F[i - 1]
    IN  F[Len(c)]

\* find_opportunities: the lists it may return (each check answers Some or
\* None; at most MaxOpps answer Some)
find_opportunities(ms, t) ==
    LET c == Candidates(ms, t)
    IN  {Pick(c, S) : S \in {T \in SUBSET (1..Len(c)) : Cardinality(T) <= MaxOpps}}

(***************************************************************************)
(* validate_opportunity.                                                   *)
(***************************************************************************)
\* validate_market_state: a placeholder that accepts every market
validate_market_state(ms, market) == TRUE

\* check_security_constraints: a placeholder that accepts every opportunity
check_security_constraints(opportunity) == TRUE

validate_opportunity(opportunity, ms, t) ==
    IF t - opportunity.timestamp > 5 THEN FALSE
    ELSE IF \E s \in 1..Len(opportunity.route) :
                ~validate_market_state(ms, opportunity.route[s]) THEN FALSE
    ELSE IF ~check_security_constraints(opportunity) THEN FALSE
    ELSE TRUE

(***************************************************************************)
(* The decisions of arbitrage_cycle, execute_arbitrage and start: the      *)
(* position that follows each call's result.  "next" is the loop's         *)
(* continue; "abort" leaves arbitrage_cycle with the error (the ? operator *)
(* ).                                                                      *)
(***************************************************************************)
\* if !self.validate_opportunity(&opportunity).await? { continue; }
AfterValidate(res) ==
    CASE res = "true" -> "is_profitable"
      [] res = "false" -> "next"
      [] OTHER -> "abort"

\* a slip: the verdict of is_profitable is not looked at
AfterProfitable_Ignored(res) ==
    CASE res \in {"true", "false"} -> "build"
      [] OTHER -> "abort"

\* if !self.is_profitable(&opportunity).await? { continue; }
AfterProfitable(res) ==
    CASE res = "true" -> "build"
      [] res = "false" -> "next"
      [] OTHER -> "abort"

\* let transaction = self.build_arbitrage_transaction(opportunity)?;
AfterBuild(res) == IF res = "ok" THEN "simulate" ELSE "return_err"

\* a slip: a simulation that returned false does not stop the submission
AfterSimulate_SendAnyway(res) ==
    CASE res \in {"true", "false"} -> "send"
      [] OTHER -> "return_err"

\* if !self.simulate_transaction(&transaction)? { return Ok(failed) }
AfterSimulate(res) ==
    CASE res = "true" -> "send"
      [] res = "false" -> "return_failed"
      [] OTHER -> "return_err"

\* a slip: a failed submission is tried again
AfterSend_Retry(res) == IF res = "ok" THEN "confirm" ELSE "send"

\* let signature = self.send_transaction(&transaction)?;
AfterSend(res) == IF res = "ok" THEN "confirm" ELSE "return_err"

\* self.confirm_transaction(&signature)?;
AfterConfirm(res) == IF res = "ok" THEN "return_ok" ELSE "return_err"

\* a slip: self.arbitrage_cycle().await? in the loop of start
AfterCycleError_Propagated == "returned"

\* start: if let Err(e) = self.arbitrage_cycle().await { log; sleep }
AfterCycleError == "backoff"

\* start: self.init_market_monitoring().await?;
AfterInitError == "returned"

\* the result execute_arbitrage returns at each of its exits
ExecutionResultOf(exit) ==
    CASE exit = "return_failed" ->
            OkResult(FALSE, "Transaction simulation failed", FALSE)
      [] exit = "return_ok" -> OkResult(TRUE, "", TRUE)
      [] OTHER -> ErrResult

IsExit(p) == p \in {"return_failed", "return_ok", "return_err"}

\* the for loop of arbitrage_cycle after candidate i: the next candidate, or
\* the return of Ok(()) to start
LoopPc(i, opps) == IF i < Len(opps) THEN "validate" ELSE "cycle_ok"

(***************************************************************************)
(* Actions.  Time passes between the steps; the model shows it where the   *)
(* program reads the clock: a reading is any time from the last reading    *)
(* on.                                                                     *)
(***************************************************************************)
\* SystemTime::now().duration_since(UNIX_EPOCH).unwrap().as_secs()
ClockReadings == now..MaxTime

\* ArbitrageEngine::new, and the clock before its first reading
EngineInit ==
    /\ pc = "init"
    /\ init_i = 1
    /\ market_states = <<>>
    /\ lock = "none"
    /\ opportunities = <<>>
    /\ idx = 0
    /\ now = 0
    /\ log = <<>>
    /\ exec_result = NoResult

\* add_market_state: self.market_states.write().await
AddMarketStateLock ==
    /\ pc = "init"
    /\ init_i <= Len(WhitelistedMarkets)
    /\ lock = "none"
    /\ lock' = "write"
    /\ pc' = "fetch"
    /\ UNCHANGED <<init_i, market_states, opportunities, idx, now, log, exec_result>>
    /\ UNCHANGED <<strategy_vars, profit_vars, dex_vars>>

\* add_market_state: fetch_market_state(market)?, push, and the guard's drop
AddMarketStateFetch ==
    /\ pc = "fetch"
    /\ lock' = "none"
    /\ \/ /\ market_states' =
                Append(market_states, MarketState(WhitelistedMarkets[init_i], now))
          /\ init_i' = init_i + 1
          /\ pc' = "init"
       \/ /\ pc' = AfterInitError
          /\ UNCHANGED <<market_states, init_i>>
    /\ UNCHANGED <<opportunities, idx, now, log, exec_result>>
    /\ UNCHANGED <<strategy_vars, profit_vars, dex_vars>>

\* init_market_monitoring returns Ok(()): start enters its loop
InitMarketMonitoringDone ==
    /\ pc = "init"
    /\ init_i > Len(WhitelistedMarkets)
    /\ pc' = "cycle"
    /\ UNCHANGED <<init_i, market_states, lock, opportunities, idx, now, log, exec_result>>
    /\ UNCHANGED <<strategy_vars, profit_vars, dex_vars>>

\* a slip: the read guard outlives the call that took it
ReadGuardAtReturn_Held == "read"

\* let market_states = self.market_states.read().await; in find_opportunities
\* and in validate_opportunity: the guard is a local of the function, dropped
\* on each of its returns
ReadGuardAtReturn == "none"

\* arbitrage_cycle: let opportunities = self.find_opportunities().await?;
FindOpportunities ==
    /\ pc = "cycle"
    /\ lock # "write"
    /\ exec_result' = NoResult
    /\ \/ \E t \in ClockReadings : \E found \in find_opportunities(market_states, t) :
            /\ now' = t
            /\ opportunities' = found
            /\ idx' = IF Len(found) > 0 THEN 1 ELSE 0
            /\ pc' = LoopPc(0, found)
            /\ log' = <<Event("find", 0, "ok", 0)>>
       \/ /\ opportunities' = <<>>
          /\ idx' = 0
          /\ pc' = AfterCycleError
          /\ log' = <<Event("find", 0, "err", 0)>>
          /\ now' = now
    /\ lock' = ReadGuardAtReturn
    /\ UNCHANGED <<init_i, market_states>>
    /\ UNCHANGED <<strategy_vars, profit_vars, dex_vars>>

\* the step of arbitrage_cycle that follows a call's decision p; t is the
\* clock's reading if the call read it
Proceed(p, op, res, t) ==
    /\ now' = t
    /\ log' = Append(log, Event(op, idx, res,
                IF op = "validate" THEN t - opportunities[idx].timestamp ELSE 0))
    /\ IF p = "next" \/ IsExit(p)
       THEN /\ pc' = LoopPc(idx, opportunities)
            /\ idx' = IF idx < Len(opportunities) THEN idx + 1 ELSE idx
       ELSE /\ pc' = IF p = "abort" THEN AfterCycleError ELSE p
            /\ idx' = idx
    /\ exec_result' = IF IsExit(p) THEN ExecutionResultOf(p) ELSE exec_result
    /\ lock' = IF op = "validate" THEN ReadGuardAtReturn ELSE lock
    /\ UNCHANGED <<init_i, market_states, opportunities>>
    /\ UNCHANGED <<strategy_vars, profit_vars, dex_vars>>

BoolText(b) == IF b THEN "true" ELSE "false"

\* arbitrage_cycle: self.validate_opportunity(&opportunity).await?
ValidateOpportunity ==
    /\ pc = "validate"
    /\ lock # "write"
    /\ \E t \in ClockReadings :
        LET res == BoolText(validate_opportunity(opportunities[idx], market_states, t))
        IN  Proceed(AfterValidate(res), "validate", res, t)

\* arbitrage_cycle: self.is_profitable(&opportunity).await?
IsProfitable ==
    /\ pc = "is_profitable"
    /\ \E res \in {"true", "false", "err"} :
            Proceed(AfterProfitable(res), "is_profitable", res, now)

\* execute_arbitrage: build_arbitrage_transaction
BuildTransaction ==
    /\ pc = "build"
    /\ \E res \in {"ok", "err"} : Proceed(AfterBuild(res), "build", res, now)

\* execute_arbitrage: simulate_transaction
SimulateTransaction ==
    /\ pc = "simulate"
    /\ \E res \in {"true", "false", "err"} :
            Proceed(AfterSimulate(res), "simulate", res, now)

\* execute_arbitrage: send_transaction
SendTransaction ==
    /\ pc = "send"
    /\ \E res \in {"ok", "err"} : Proceed(AfterSend(res), "send", res, now)

\* execute_arbitrage: confirm_transaction
ConfirmTransaction ==
    /\ pc = "confirm"
    /\ \E res \in {"ok", "err"} : Proceed(AfterConfirm(res), "confirm", res, now)

\* the locals of arbitrage_cycle are dropped when it returns
DropCycle ==
    /\ opportunities' = <<>>
    /\ idx' = 0
    /\ log' = <<>>
    /\ exec_result' = NoResult

\* start: arbitrage_cycle returned Ok(()), the loop's next turn
CycleOk ==
    /\ pc = "cycle_ok"
    /\ pc' = "cycle"
    /\ DropCycle
    /\ UNCHANGED <<init_i, market_states, lock, now>>
    /\ UNCHANGED <<strategy_vars, profit_vars, dex_vars>>

\* start: log::error!, tokio::time::sleep(1 s), and the loop's next turn
Backoff ==
    /\ pc = "backoff"
    /\ pc' = "cycle"
    /\ DropCycle
    /\ UNCHANGED <<init_i, market_states, lock, now>>
    /\ UNCHANGED <<strategy_vars, profit_vars, dex_vars>>

EngineStep ==
    \/ AddMarketStateLock
    \/ AddMarketStateFetch
    \/ InitMarketMonitoringDone
    \/ FindOpportunities
    \/ ValidateOpportunity
    \/ IsProfitable
    \/ BuildTransaction
    \/ SimulateTransaction
    \/ SendTransaction
    \/ ConfirmTransaction
    \/ CycleOk
    \/ Backoff

(***************************************************************************)
(* Part 2.  The strategies and the transaction builder.                    *)
(*                                                                         *)
(* Prices are whole numbers; rates and percentages are in basis points     *)
(* (1/10000) unless a definition says otherwise.                           *)
(***************************************************************************)
\* the highest price of the model's markets
MaxPrice == 12
\* Settings::default(), which every strategy's new() takes
min_liquidity == 1000000
\* 0.05
max_spread == 500
\* 0.01
min_profit_threshold == 100
max_position_size == 1000000000

\* FlashLoanStrategy::new: protocol_rates
protocol_rates == [Solend |-> 9, Port |-> 10, Marinade |-> 20]

\* FlashLoanStrategy::get_flash_loan_limit
get_flash_loan_limit == 1000000000

Markets == {1, 2}
Prices == 10..MaxPrice
Liquidities == {500000, 2000000}

\* MarketState, as the strategies read it; liquidity is what get_liquidity
\* answers for it
StrategyMarketStates(market) ==
    [market_address : {market}, best_bid : Prices, best_ask : Prices,
     liquidity : Liquidities]

\* the tables a strategy may hold: one state per market at most
MarketStateTables ==
    {<<>>} \cup {<<m>> : m \in StrategyMarketStates(1)}
    \cup {<<m1, m2>> : m1 \in StrategyMarketStates(1), m2 \in StrategyMarketStates(2)}

\* the markets argument of analyze
MarketLists == {<<1>>, <<1, 2>>, <<2, 1>>}

\* PendingTransaction
PendingTransactions ==
    [market : Markets, side : {"Buy", "Sell"}, amount : {5000, 40000},
     timestamp : {0}]

\* the queues the pre-emption strategy may hold: empty, one transaction, or
\* two of the larger amount on market 1
PendingQueues ==
    {<<>>} \cup {<<tx>> : tx \in PendingTransactions}
    \cup {<<tx1, tx2>> :
            tx1 \in {tx \in PendingTransactions : tx.amount = 40000 /\ tx.market = 1},
            tx2 \in {tx \in PendingTransactions : tx.amount = 40000 /\ tx.market = 1}}

TradeStep(market, side, amount, price) ==
    [market |-> market, side |-> side, amount |-> amount, price |-> price]

\* ArbitrageOpportunity, as a strategy builds it; profit_percentage in basis
\* points; estimated_profit, which nothing reads, is left out
ArbitrageOpportunity(source, target, profit, amount, route, t) ==
    [source_market |-> source, target_market |-> target,
     profit_percentage |-> profit, required_amount |-> amount,
     route |-> route, timestamp |-> t]

Minimum(a, b) == IF a <= b THEN a ELSE b

\* MarketState::get_liquidity
get_liquidity(market_state) == market_state.liquidity

\* get_market_state: is there a state of this market in the table
HasMarketState(table, market) ==
    \E i \in 1..Len(table) : table[i].market_address = market

\* get_market_state, when it finds one: the first state of this market
get_market_state(table, market) ==
    table[CHOOSE i \in 1..Len(table) :
            /\ table[i].market_address = market
            /\ \A j \in 1..(i - 1) : table[j].market_address # market]

\* the opportunities pushed, in order: found[i] is <<>> for None and <<o>>
\* for Some(o)
Pushed(found) ==
    LET F[i \in 0..Len(found)] == IF i = 0 THEN <<>> ELSE F[i - 1] \o found[i]
    IN  F[Len(found)]

\* opportunities.sort_by(|a, b| b.profit_percentage.partial_cmp(
\* &a.profit_percentage).unwrap()): a stable sort, highest profit first
RECURSIVE SortByProfit(_)
SortByProfit(s) ==
    IF s = <<>> THEN <<>>
    ELSE LET rest == SortByProfit(SubSeq(s, 1, Len(s) - 1))
             o == s[Len(s)]
             k == Cardinality({i \in 1..Len(rest) :
                        rest[i].profit_percentage >= o.profit_percentage})
         IN  SubSeq(rest, 1, k) \o <<o>> \o SubSeq(rest, k + 1, Len(rest))

\* a slip: the list is returned in the order the opportunities were found
AnalyzeResult_Unsorted(failed, found) ==
    IF failed THEN [res |-> "err", opportunities |-> <<>>]
    ELSE [res |-> "ok", opportunities |-> Pushed(found)]

\* the result of analyze: Err, or Ok with the sorted list
AnalyzeResult(failed, found) ==
    IF failed THEN [res |-> "err", opportunities |-> <<>>]
    ELSE [res |-> "ok", opportunities |-> SortByProfit(Pushed(found))]

(***************************************************************************)
(* JitLiquidityStrategy.                                                   *)
(***************************************************************************)
\* spread = (best_ask - best_bid) / best_bid; is_volatility_suitable is a
\* placeholder that answers true
is_market_suitable_for_jit(market_state) ==
    IF get_liquidity(market_state) < min_liquidity THEN FALSE
    ELSE IF (market_state.best_ask - market_state.best_bid) * 10000
                > max_spread * market_state.best_bid THEN FALSE
    ELSE TRUE

\* calculate_size_from_depth is a placeholder that answers max_position_size
calculate_optimal_trade_size(market_state) ==
    Minimum(Minimum(max_position_size, max_position_size),
            get_liquidity(market_state) \div 10)

\* profit_percentage = net_profit / (trade_size * entry_price), with
\* entry_price = best_ask * 1.001, exit_price = best_bid * 0.999 and fees =
\* trade_size * 0.003005; the trade size (not 0) cancels.  In basis points.
calculate_jit_profit(market_state) ==
    LET millionths == market_state.best_bid * 999000
                      - market_state.best_ask * 1001000 - 3005
    IN  (millionths * 10) \div (market_state.best_ask * 1001)

create_jit_route(market_state, trade_size) ==
    <<TradeStep(market_state.market_address, "Buy", trade_size, market_state.best_ask),
      TradeStep(market_state.market_address, "Sell", trade_size, market_state.best_bid)>>

\* analyze_market_for_jit for a market the table holds: None or Some
analyze_market_for_jit(table, market, t) ==
    LET market_state == get_market_state(table, market)
        trade_size == calculate_optimal_trade_size(market_state)
        profit_percentage == calculate_jit_profit(market_state)
    IN  IF ~is_market_suitable_for_jit(market_state) THEN <<>>
        ELSE IF profit_percentage < min_profit_threshold THEN <<>>
        ELSE <<ArbitrageOpportunity(market, market, profit_percentage, trade_size,
                    create_jit_route(market_state, trade_size), t)>>

find_jit_opportunities(table, markets, t) ==
    AnalyzeResult(
        \E i \in 1..Len(markets) : ~HasMarketState(table, markets[i]),
        [i \in 1..Len(markets) |-> analyze_market_for_jit(table, markets[i], t)])

(***************************************************************************)
(* FlashLoanStrategy.                                                      *)
(***************************************************************************)
\* get_min_flash_loan_profit_needed: the highest protocol rate plus the
\* profit threshold
get_min_flash_loan_profit_needed ==
    LET rates == {protocol_rates[p] : p \in DOMAIN protocol_rates}
    IN  (CHOOSE r \in rates : \A q \in rates : q <= r) + min_profit_threshold

\* price_diff = (market2.best_bid - market1.best_ask) / market1.best_ask
are_markets_suitable(market1, market2) ==
    IF get_liquidity(market1) < min_liquidity
       \/ get_liquidity(market2) < min_liquidity THEN FALSE
    ELSE IF market2.best_bid - market1.best_ask <= 0 THEN FALSE
    ELSE IF (market2.best_bid - market1.best_ask) * 10000
                < get_min_flash_loan_profit_needed * market1.best_ask THEN FALSE
    ELSE TRUE

\* a slip: only the first market's depth is read
calculate_optimal_size_FirstMarketOnly(market1, market2) ==
    Minimum(Minimum(get_liquidity(market1), max_position_size),
            get_flash_loan_limit)

calculate_optimal_size(market1, market2) ==
    Minimum(Minimum(Minimum(get_liquidity(market1), get_liquidity(market2)),
                    max_position_size),
            get_flash_loan_limit)

\* select_best_flash_loan_protocol for an amount that is not 0: the protocol
\* of the lowest fee
select_best_flash_loan_protocol ==
    CHOOSE p \in DOMAIN protocol_rates :
        \A q \in DOMAIN protocol_rates : protocol_rates[p] <= protocol_rates[q]

\* profit_percentage = net_profit / entry_amount, with entry_amount =
\* trade_size * market1.best_ask, exit_amount = trade_size * market2.best_bid,
\* flash loan fees = trade_size * rate and trading fees = 0.003 of both
\* amounts; the trade size (not 0) cancels.  In basis points.
calculate_flash_loan_profit(market1, market2) ==
    LET millionths == market2.best_bid * 1000000 - market1.best_ask * 1000000
                      - protocol_rates[select_best_flash_loan_protocol] * 100
                      - 3000 * (market1.best_ask + market2.best_bid)
    IN  millionths \div (market1.best_ask * 100)

\* create_flash_loan_step
create_flash_loan_step(amount) == TradeStep(DefaultPubkey, "Buy", amount, 0)

\* create_repayment_step
create_repayment_step(amount) == TradeStep(DefaultPubkey, "Sell", amount, 0)

create_flash_loan_route(market1, market2, trade_size) ==
    <<create_flash_loan_step(trade_size),
      TradeStep(market1.market_address, "Buy", trade_size, market1.best_ask),
      TradeStep(market2.market_address, "Sell", trade_size, market2.best_bid),
      create_repayment_step(trade_size)>>

\* analyze_flash_loan_opportunity for two markets the table holds
analyze_flash_loan_opportunity(table, market1, market2, t) ==
    LET market1_state == get_market_state(table, market1)
        market2_state == get_market_state(table, market2)
        trade_size == calculate_optimal_size(market1_state, market2_state)
        profit_percentage == calculate_flash_loan_profit(market1_state, market2_state)
    IN  IF ~are_markets_suitable(market1_state, market2_state) THEN <<>>
        ELSE IF profit_percentage < min_profit_threshold THEN <<>>
        ELSE <<ArbitrageOpportunity(market1, market2, profit_percentage, trade_size,
                    create_flash_loan_route(market1_state, market2_state, trade_size),
                    t)>>

\* the pairs of the two nested loops over markets, in order
MarketPairs(markets) ==
    LET n == Len(markets)
        F[k \in 0..(n * n)] ==
            IF k = 0 THEN <<>>
            ELSE LET market1 == markets[((k - 1) \div n) + 1]
                     market2 == markets[((k - 1) % n) + 1]
                 IN  IF market1 # market2
                     THEN Append(F[k - 1], <<market1, market2>>)
                     ELSE F[k - 1]
    IN  F[n * n]

find_flash_loan_opportunities(table, markets, t) ==
    LET pairs == MarketPairs(markets)
    IN  AnalyzeResult(
            \E i \in 1..Len(pairs) :
                ~HasMarketState(table, pairs[i][1]) \/ ~HasMarketState(table, pairs[i][2]),
            [i \in 1..Len(pairs) |->
                analyze_flash_loan_opportunity(table, pairs[i][1], pairs[i][2], t)])

(***************************************************************************)
(* FrontRunningStrategy.                                                   *)
(***************************************************************************)
\* calculate_min_impact_size: 1% of the liquidity
calculate_min_impact_size(market_state) == get_liquidity(market_state) \div 100

\* calculate_price_impact: tx.amount * 0.0001, in basis points
calculate_price_impact(tx) == tx.amount

is_transaction_suitable(tx, market_state, t) ==
    IF t - tx.timestamp > 2 THEN FALSE
    ELSE IF tx.amount < calculate_min_impact_size(market_state) THEN FALSE
    ELSE IF get_liquidity(market_state) < min_liquidity THEN FALSE
    ELSE IF calculate_price_impact(tx) < max_spread THEN FALSE
    ELSE TRUE

\* (best_ask * 0.003 / min_profit_threshold) as u64
calculate_min_profitable_size(market_state) ==
    (market_state.best_ask * 30) \div min_profit_threshold

\* calculate_market_depth is a placeholder that answers 1.0; max_size is
\* self.settings.trading.execution.max_position_size
calculate_optimal_position(tx, market_state, max_size) ==
    LET risk_adjusted == Minimum(tx.amount \div 4, max_size)
        min_size == calculate_min_profitable_size(market_state)
    IN  IF risk_adjusted >= min_size THEN risk_adjusted ELSE min_size

\* profit_percentage = net_profit / (position_size * entry_price), with
\* entry_price = best_ask * 1.001, the expected price moved by the price
\* impact, the exit price 1% beyond it and fees = position_size * best_ask *
\* 0.003; the position size (not 0) cancels.  In basis points.
calculate_front_running_profit(tx, market_state) ==
    LET millionths ==
            IF tx.side = "Buy"
            THEN market_state.best_ask * ((10000 + tx.amount) * 101 - 1004000)
            ELSE market_state.best_ask * 998000
                 - market_state.best_bid * (10000 - tx.amount) * 99
    IN  (millionths * 10) \div (market_state.best_ask * 1001)

create_front_running_route(tx, position_size, market_state) ==
    <<TradeStep(market_state.market_address,
                IF tx.side = "Buy" THEN "Sell" ELSE "Buy",
                position_size, market_state.best_ask),
      TradeStep(market_state.market_address, tx.side, position_size,
                market_state.best_bid)>>

\* analyze_transaction_opportunity for a transaction on a market the table
\* holds
analyze_transaction_opportunity(table, tx, t) ==
    LET market_state == get_market_state(table, tx.market)
        position_size == calculate_optimal_position(tx, market_state,
                                                    max_position_size)
        profit_percentage == calculate_front_running_profit(tx, market_state)
    IN  IF ~is_transaction_suitable(tx, market_state, t) THEN <<>>
        ELSE IF profit_percentage < min_profit_threshold THEN <<>>
        ELSE <<ArbitrageOpportunity(tx.market, tx.market, profit_percentage,
                    position_size,
                    create_front_running_route(tx, position_size, market_state), t)>>

\* analyze_mempool answers the queue; the markets argument is not read
find_front_running_opportunities(table, queue, t) ==
    AnalyzeResult(
        \E i \in 1..Len(queue) : ~HasMarketState(table, queue[i].market),
        [i \in 1..Len(queue) |-> analyze_transaction_opportunity(table, queue[i], t)])

(***************************************************************************)
(* ArbitrageStrategy::validate, of each strategy: "true", "false" or "err" *)
(***************************************************************************)
validate_jit(table, opportunity, t) ==
    IF t - opportunity.timestamp > 5 THEN "false"
    ELSE IF opportunity.profit_percentage < min_profit_threshold THEN "false"
    ELSE "true"

\* a slip: the freshness window of the round-trip strategy, copied
validate_flash_loan_Window5(table, opportunity, t) ==
    IF t - opportunity.timestamp > 5 THEN "false"
    ELSE IF ~HasMarketState(table, opportunity.source_market)
            \/ ~HasMarketState(table, opportunity.target_market) THEN "err"
    ELSE BoolText(are_markets_suitable(
                get_market_state(table, opportunity.source_market),
                get_market_state(table, opportunity.target_market)))

validate_flash_loan(table, opportunity, t) ==
    IF t - opportunity.timestamp > 3 THEN "false"
    ELSE IF ~HasMarketState(table, opportunity.source_market)
            \/ ~HasMarketState(table, opportunity.target_market) THEN "err"
    ELSE BoolText(are_markets_suitable(
                get_market_state(table, opportunity.source_market),
                get_market_state(table, opportunity.target_market)))

validate_front_running(table, opportunity, t) ==
    IF t - opportunity.timestamp > 1 THEN "false"
    ELSE IF ~HasMarketState(table, opportunity.source_market) THEN "err"
    ELSE IF get_liquidity(get_market_state(table, opportunity.source_market))
                < min_liquidity THEN "false"
    ELSE "true"

(***************************************************************************)
(* TransactionBuilder.                                                     *)
(***************************************************************************)
\* settings.security.mev_protection, of the builder's settings
MevProtectionSettings ==
    [enabled : BOOLEAN, frontrunning_detection : BOOLEAN,
     backrunning_detection : BOOLEAN, sandwich_detection : BOOLEAN]

\* an Instruction: what it is, and the market and amount it was made for
Instruction(kind, market, amount) ==
    [kind |-> kind, market |-> market, amount |-> amount]

\* (amount as f64 * 0.0009) as u64
calculate_flash_loan_fee(amount) ==
    (amount \div 10000) * 9 + ((amount % 10000) * 9) \div 10000

build_flash_loan_instructions(opportunity) ==
    <<Instruction("flash_loan", DefaultPubkey, opportunity.required_amount)>>

build_repayment_instructions(opportunity) ==
    <<Instruction("repayment", DefaultPubkey,
        opportunity.required_amount
        + calculate_flash_loan_fee(opportunity.required_amount))>>

add_mev_protection(step, mev) ==
    (IF mev.frontrunning_detection
     THEN <<Instruction("frontrunning_protection", step.market, step.amount)>>
     ELSE <<>>)
    \o (IF mev.backrunning_detection
        THEN <<Instruction("backrunning_protection", step.market, step.amount)>>
        ELSE <<>>)
    \o (IF mev.sandwich_detection
        THEN <<Instruction("sandwich_protection", step.market, step.amount)>>
        ELSE <<>>)

\* a slip: the protection is added before the trade
build_trade_instructions_GuardsFirst(step, mev) ==
    (IF mev.enabled THEN add_mev_protection(step, mev) ELSE <<>>)
    \o <<Instruction(IF step.side = "Buy" THEN "market_buy" ELSE "market_sell",
                     step.market, step.amount),
         Instruction("settlement", step.market, step.amount)>>

\* build_buy_instructions or build_sell_instructions, then the protection
build_trade_instructions(step, mev) ==
    <<Instruction(IF step.side = "Buy" THEN "market_buy" ELSE "market_sell",
                  step.market, step.amount),
      Instruction("settlement", step.market, step.amount)>>
    \o (IF mev.enabled THEN add_mev_protection(step, mev) ELSE <<>>)

\* a slip: the repayment is added before the trading instructions
build_arbitrage_transaction_RepayFirst(opportunity, mev) ==
    (IF Len(opportunity.route) > 2
     THEN build_flash_loan_instructions(opportunity)
          \o build_repayment_instructions(opportunity)
     ELSE <<>>)
    \o Pushed([i \in 1..Len(opportunity.route) |->
                build_trade_instructions(opportunity.route[i], mev)])

\* the instructions build_arbitrage_transaction hands to
\* build_and_sign_transaction
build_arbitrage_transaction(opportunity, mev) ==
    (IF Len(opportunity.route) > 2
     THEN build_flash_loan_instructions(opportunity) ELSE <<>>)
    \o Pushed([i \in 1..Len(opportunity.route) |->
                build_trade_instructions(opportunity.route[i], mev)])
    \o (IF Len(opportunity.route) > 2
        THEN build_repayment_instructions(opportunity) ELSE <<>>)

(***************************************************************************)
(* The calls of Part 2.  A strategy is asked to analyze; one of the        *)
(* opportunities it returned is then validated by it, or handed to the     *)
(* builder.  The calls are functions of the table, the queue, their        *)
(* arguments and the clock, so a behaviour makes each of the two calls     *)
(* once.                                                                   *)
(***************************************************************************)
NotAnalyzed == [strategy |-> "none", res |-> "none", opportunities |-> <<>>]

NotValidated == [opportunity |-> 0, age |-> 0, res |-> "none"]

NotBuilt ==
    [opportunity |-> 0, route |-> <<>>, res |-> "none",
     mev |-> [enabled |-> FALSE, frontrunning_detection |-> FALSE,
              backrunning_detection |-> FALSE, sandwich_detection |-> FALSE],
     instructions |-> <<>>]

\* StrategyFactory::create_strategy: the strategy made for a name, or
\* Err(ConfigError("Unknown strategy type"))
create_strategy(strategy_type) ==
    CASE strategy_type = "jit" -> [ok |-> TRUE, strategy |-> "JitLiquidityStrategy"]
      [] strategy_type = "flash_loan" ->
            [ok |-> TRUE, strategy |-> "FlashLoanStrategy"]
      [] strategy_type = "front_running" ->
            [ok |-> TRUE, strategy |-> "FrontRunningStrategy"]
      [] OTHER -> [ok |-> FALSE, strategy |-> "ConfigError"]

\* a slip: a strategy is made for every name of the list, in list order
initialize_strategies_PerName(execution_strategies) ==
    LET created == [i \in 1..Len(execution_strategies) |->
                        create_strategy(execution_strategies[i])]
    IN  IF \E i \in 1..Len(created) : ~created[i].ok
        THEN [ok |-> FALSE, strategies |-> <<>>]
        ELSE [ok |-> TRUE,
              strategies |-> [i \in 1..Len(created) |-> created[i].strategy]]

\* initialize_strategies of main.rs: for each of the three names in turn, if
\* the list contains it, strategies.push(create_strategy(name)?)
initialize_strategies(execution_strategies) ==
    LET Push(result, name) ==
            LET created == create_strategy(name)
            IN  IF ~result.ok THEN result
                ELSE IF \A i \in 1..Len(execution_strategies) :
                            execution_strategies[i] # name THEN result
                ELSE IF ~created.ok THEN [ok |-> FALSE, strategies |-> <<>>]
                ELSE [ok |-> TRUE,
                      strategies |-> Append(result.strategies, created.strategy)]
    IN  Push(Push(Push([ok |-> TRUE, strategies |-> <<>>], "jit"), "flash_loan"),
             "front_running")

\* initialize_strategies has not been called
NotInitialized ==
    [called |-> FALSE, execution_strategies |-> <<>>, ok |-> TRUE,
     strategies |-> <<>>]

\* no position has been sized yet
NotSized ==
    [strategy |-> "none", tx_amount |-> 0, best_ask |-> 0, liquidity1 |-> 0,
     liquidity2 |-> 0, size |-> 0]

\* JitLiquidityStrategy::new and the like: empty tables, an empty queue
StrategiesNew ==
    /\ strategy_market_states = <<>>
    /\ pending_transactions = <<>>
    /\ analyzed = NotAnalyzed
    /\ validated = NotValidated
    /\ built = NotBuilt
    /\ sized = NotSized
    /\ initialized = NotInitialized

\* initialize_strategies(&settings) for a list of up to three names, known
\* or not; the strategies it makes are new, with an empty table and queue
InitializeStrategies ==
    /\ initialized = NotInitialized
    /\ strategy_market_states = <<>> /\ pending_transactions = <<>>
    /\ analyzed = NotAnalyzed /\ sized = NotSized /\ built = NotBuilt
    /\ \E n \in 0..3 :
       \E execution_strategies \in
            [1..n -> {"jit", "flash_loan", "front_running", "triangular"}] :
        LET result == initialize_strategies(execution_strategies)
        IN  initialized' = [called |-> TRUE,
                            execution_strategies |-> execution_strategies,
                            ok |-> result.ok, strategies |-> result.strategies]
    /\ UNCHANGED <<engine_vars, now, strategy_market_states, pending_transactions,
                   analyzed, validated, built, sized, profit_vars, dex_vars>>

\* FrontRunningStrategy::calculate_optimal_position for a transaction and a
\* market state of any size.  Amounts and prices are in thousands here, and
\* so is the cap: the amounts are multiples of 4 and the prices multiples of
\* 10, for which the position in thousands is exact.
CalculateOptimalPosition ==
    /\ analyzed = NotAnalyzed /\ sized = NotSized /\ built = NotBuilt
    /\ \E amount \in {4, 40, 4000, 8000000} :
       \E best_ask \in {10, 1000, 3333330, 4000000} :
            sized' = [strategy |-> "front_running", tx_amount |-> amount,
                      best_ask |-> best_ask, liquidity1 |-> 0, liquidity2 |-> 0,
                      size |-> calculate_optimal_position(
                                  [amount |-> amount], [best_ask |-> best_ask],
                                  max_position_size \div 1000)]
    /\ UNCHANGED <<engine_vars, now, strategy_market_states, pending_transactions,
                   analyzed, validated, built, initialized, profit_vars,
                   dex_vars>>

\* FlashLoanStrategy::calculate_optimal_size for two markets of any depth
CalculateOptimalSize ==
    /\ analyzed = NotAnalyzed /\ sized = NotSized /\ built = NotBuilt
    /\ \E liquidity1, liquidity2 \in {500000, 2000000, 1500000000, 2000000000} :
            sized' = [strategy |-> "flash_loan", tx_amount |-> 0, best_ask |-> 0,
                      liquidity1 |-> liquidity1, liquidity2 |-> liquidity2,
                      size |-> calculate_optimal_size([liquidity |-> liquidity1],
                                                      [liquidity |-> liquidity2])]
    /\ UNCHANGED <<engine_vars, now, strategy_market_states, pending_transactions,
                   analyzed, validated, built, initialized, profit_vars,
                   dex_vars>>

\* analyze returns: the clock was read at t
Analyzed(strategy, result, t) ==
    /\ analyzed = NotAnalyzed /\ sized = NotSized /\ built = NotBuilt
    /\ now' = t
    /\ analyzed' = [strategy |-> strategy, res |-> result.res,
                    opportunities |-> result.opportunities]
    /\ validated' = NotValidated
    /\ built' = NotBuilt
    /\ UNCHANGED <<engine_vars, strategy_market_states, pending_transactions,
                   sized, initialized, profit_vars,
                   dex_vars>>

\* JitLiquidityStrategy::analyze
AnalyzeJit ==
    \E markets \in MarketLists : \E t \in ClockReadings :
        Analyzed("jit", find_jit_opportunities(strategy_market_states, markets, t), t)

\* FlashLoanStrategy::analyze
AnalyzeFlashLoan ==
    \E markets \in MarketLists : \E t \in ClockReadings :
        Analyzed("flash_loan",
                 find_flash_loan_opportunities(strategy_market_states, markets, t), t)

\* FrontRunningStrategy::analyze
AnalyzeFrontRunning ==
    \E t \in ClockReadings :
        Analyzed("front_running",
                 find_front_running_opportunities(strategy_market_states,
                                                  pending_transactions, t), t)

\* validate returns res for the i-th opportunity: the clock was read at t
Validated(i, res, t) ==
    /\ validated = NotValidated /\ built = NotBuilt
    /\ now' = t
    /\ validated' = [opportunity |-> i,
                     age |-> t - analyzed.opportunities[i].timestamp, res |-> res]
    /\ built' = NotBuilt
    /\ UNCHANGED <<engine_vars, strategy_market_states, pending_transactions,
                   analyzed, sized, initialized, profit_vars,
                   dex_vars>>

\* JitLiquidityStrategy::validate
ValidateJit ==
    /\ analyzed.strategy = "jit"
    /\ \E i \in 1..Len(analyzed.opportunities) : \E t \in ClockReadings :
        Validated(i, validate_jit(strategy_market_states,
                                  analyzed.opportunities[i], t), t)

\* FlashLoanStrategy::validate
ValidateFlashLoan ==
    /\ analyzed.strategy = "flash_loan"
    /\ \E i \in 1..Len(analyzed.opportunities) : \E t \in ClockReadings :
        Validated(i, validate_flash_loan(strategy_market_states,
                                         analyzed.opportunities[i], t), t)

\* FrontRunningStrategy::validate
ValidateFrontRunning ==
    /\ analyzed.strategy = "front_running"
    /\ \E i \in 1..Len(analyzed.opportunities) : \E t \in ClockReadings :
        Validated(i, validate_front_running(strategy_market_states,
                                            analyzed.opportunities[i], t), t)

\* TransactionBuilder::build_arbitrage_transaction; the calls that create
\* the single instructions are placeholders: they all answer, or one fails
\* and the build returns its error
BuildArbitrageTransaction ==
    /\ validated = NotValidated /\ built = NotBuilt
    /\ \E i \in 1..Len(analyzed.opportunities) :
       \E mev \in MevProtectionSettings : \E created \in BOOLEAN :
            built' = [opportunity |-> i,
                      route |-> analyzed.opportunities[i].route,
                      res |-> IF created THEN "ok" ELSE "err",
                      mev |-> mev,
                      instructions |->
                        IF created
                        THEN build_arbitrage_transaction(analyzed.opportunities[i], mev)
                        ELSE <<>>]
    /\ validated' = NotValidated
    /\ UNCHANGED <<engine_vars, now, strategy_market_states, pending_transactions,
                   analyzed, sized, initialized, profit_vars,
                   dex_vars>>

\* build_arbitrage_transaction for an opportunity no strategy emitted: a
\* route of three legs on three markets, none of them a borrow or a repay
\* leg
BuildArbitrageTransactionTriangular ==
    /\ analyzed = NotAnalyzed /\ sized = NotSized /\ built = NotBuilt
    /\ \E mev \in MevProtectionSettings : \E created \in BOOLEAN :
        LET opportunity ==
                ArbitrageOpportunity(1, 3, 150, 1000,
                    <<TradeStep(1, "Buy", 1000, 10), TradeStep(2, "Buy", 1000, 10),
                      TradeStep(3, "Sell", 1000, 11)>>, now)
        IN  built' = [opportunity |-> 0,
                      route |-> opportunity.route,
                      res |-> IF created THEN "ok" ELSE "err",
                      mev |-> mev,
                      instructions |->
                        IF created
                        THEN build_arbitrage_transaction(opportunity, mev)
                        ELSE <<>>]
    /\ UNCHANGED <<engine_vars, now, strategy_market_states, pending_transactions,
                   analyzed, validated, sized, initialized, profit_vars,
                   dex_vars>>

(***************************************************************************)
(* Part 3.  ProfitCalculator.  Amounts and profits are in thousandths of   *)
(* a unit, slippage in millionths, prices are whole numbers.               *)
(***************************************************************************)
\* the Settings a ProfitCalculator is given: the fields it reads
\* (min_profit_threshold 0.01 and max_loss_threshold -0.02 in thousandths,
\* slippage_tolerance 0.01 in millionths)
CalculatorSettings(max_size, mev_enabled) ==
    [min_profit_threshold |-> 10, max_position_size |-> max_size,
     max_loss_threshold |-> -20, slippage_tolerance |-> 10000,
     mev_protection_enabled |-> mev_enabled]

ScoredAmounts == {1000, 2000}
ScoredPrices == {1, 10}

\* a slip: the estimate is not capped
calculate_slippage_Uncapped(s, amount) == amount \div 1000

\* slippage = min(amount / 100000 * 0.1, slippage_tolerance)
calculate_slippage(s, amount) ==
    Minimum(amount \div 1000, s.slippage_tolerance)

\* get_market_fee_rate is 0.003
calculate_buy_profit(s, input_amount, price, market_state) ==
    LET slippage == calculate_slippage(s, input_amount)
        effective_price == (price * (1000000 + slippage)) \div 1000
        base_output == (input_amount * 1000) \div effective_price
        output_after_fees == (base_output * 997) \div 1000
    IN  [profit |-> output_after_fees * market_state.best_bid - input_amount,
         output |-> output_after_fees]

calculate_sell_profit(s, input_amount, price, market_state) ==
    LET slippage == calculate_slippage(s, input_amount)
        gross == input_amount * price
        base_output == gross - ((gross \div 1000) * slippage) \div 1000
        output_after_fees == (base_output \div 1000) * 997
                             + ((base_output % 1000) * 997) \div 1000
    IN  [profit |-> output_after_fees - input_amount * market_state.best_ask,
         output |-> output_after_fees]

\* calculate_step_profit for a step on a market the table holds
calculate_step_profit(s, step, input_amount, table) ==
    IF step.side = "Buy"
    THEN calculate_buy_profit(s, input_amount, step.price,
                              get_market_state(table, step.market))
    ELSE calculate_sell_profit(s, input_amount, step.price,
                               get_market_state(table, step.market))

estimate_gas_costs(s, opportunity) ==
    5000 + Len(opportunity.route) * 1000
    + (IF Len(opportunity.route) > 2 THEN 2000 ELSE 0)
    + (IF s.mev_protection_enabled THEN 1000 ELSE 0)

\* trading fees 0.003 of every step's amount, the flash loan fee 0.0009 and
\* the protocol fee 0.001 of required_amount
calculate_total_fees(opportunity) ==
    LET route == opportunity.route
        Trading[i \in 0..Len(route)] ==
            IF i = 0 THEN 0 ELSE Trading[i - 1] + route[i].amount * 3
    IN  Trading[Len(route)]
        + (IF Len(route) > 2 THEN (opportunity.required_amount * 9) \div 10 ELSE 0)
        + opportunity.required_amount

\* Result<f64, ArbitrageError>: Err when a step's market is not in the table
calculate_total_profit(s, opportunity, table) ==
    LET route == opportunity.route
        Steps[i \in 0..Len(route)] ==
            IF i = 0
            THEN [profit |-> 0, output |-> opportunity.required_amount * 1000]
            ELSE LET step == calculate_step_profit(s, route[i], Steps[i - 1].output,
                                                   table)
                 IN  [profit |-> Steps[i - 1].profit + step.profit,
                      output |-> step.output]
    IN  IF \E i \in 1..Len(route) : ~HasMarketState(table, route[i].market)
        THEN [res |-> "err", value |-> 0]
        ELSE [res |-> "ok",
              value |-> Steps[Len(route)].profit
                        - (calculate_total_fees(opportunity)
                           + estimate_gas_costs(s, opportunity) * 1000)]

\* a slip: the position size is not checked
validate_risk_parameters_NoSizeCheck(s, opportunity, profit) ==
    IF profit < s.max_loss_threshold * opportunity.required_amount THEN FALSE
    ELSE TRUE

\* risk_ratio = profit / required_amount
validate_risk_parameters(s, opportunity, profit) ==
    IF opportunity.required_amount > s.max_position_size THEN FALSE
    ELSE IF profit < s.max_loss_threshold * opportunity.required_amount THEN FALSE
    ELSE TRUE

\* a slip: a profit under the threshold is reported as an error
is_profitable_RejectIsError(s, opportunity, table) ==
    LET total_profit == calculate_total_profit(s, opportunity, table)
    IN  IF total_profit.res = "err" THEN "err"
        ELSE IF total_profit.value < s.min_profit_threshold THEN "err"
        ELSE IF ~validate_risk_parameters(s, opportunity, total_profit.value)
             THEN "false"
        ELSE "true"

\* Result<bool, ArbitrageError>: "true", "false" or "err"
is_profitable(s, opportunity, table) ==
    LET total_profit == calculate_total_profit(s, opportunity, table)
    IN  IF total_profit.res = "err" THEN "err"
        ELSE IF total_profit.value < s.min_profit_threshold THEN "false"
        ELSE IF ~validate_risk_parameters(s, opportunity, total_profit.value)
             THEN "false"
        ELSE "true"

\* the opportunities scored: a buy and a sell on market 1, bare or between a
\* borrow and a repay leg
ScoredOpportunities ==
    {ArbitrageOpportunity(1, 1, 0, a,
        <<TradeStep(1, "Buy", a, p1), TradeStep(1, "Sell", a, p2)>>, 0) :
        a \in ScoredAmounts, p1 \in ScoredPrices, p2 \in ScoredPrices}
    \cup {ArbitrageOpportunity(1, 1, 0, a,
            <<create_flash_loan_step(a), TradeStep(1, "Buy", a, 1),
              TradeStep(1, "Sell", a, 10), create_repayment_step(a)>>, 0) :
            a \in ScoredAmounts}

\* the market_states argument: empty, or the state of market 1
ScoredTables ==
    {<<>>} \cup {<<[market_address |-> 1, best_bid |-> b, best_ask |-> k,
                    liquidity |-> 2000000]>> : b \in ScoredPrices, k \in ScoredPrices}

\* settings.trading.risk.max_loss_threshold, in thousandths: the default, a
\* floor under every loss of the model, and a floor above some of its gains
LossThresholds == {-20, -9000, 1000}

NotScored ==
    [opportunity |-> ArbitrageOpportunity(0, 0, 0, 0, <<>>, 0),
     market_states |-> <<>>, total_profit |-> [res |-> "none", value |-> 0],
     res |-> "none"]

\* no call of calculate_slippage yet
NotSlipped ==
    [amount |-> -1, slippage |-> 0, larger_amount |-> -1, larger_slippage |-> 0]

\* ProfitCalculator::new(Settings::default()), nothing scored
CalculatorNew ==
    /\ settings = CalculatorSettings(max_position_size, TRUE)
    /\ scored = NotScored
    /\ slipped = NotSlipped

\* ProfitCalculator::is_profitable
IsProfitableCall ==
    /\ \E opportunity \in ScoredOpportunities : \E table \in ScoredTables :
            scored' = [opportunity |-> opportunity, market_states |-> table,
                       total_profit |->
                            calculate_total_profit(settings, opportunity, table),
                       res |-> is_profitable(settings, opportunity, table)]
    /\ UNCHANGED <<engine_vars, now, strategy_vars, settings, slipped, dex_vars>>

\* the amount argument of calculate_slippage, in thousandths: from nothing
\* to twice the amount at which the default tolerance is reached
SlippageAmounts ==
    {0, 999, 1000, 2500000, 9999000, 10000000, 10001000, 20000000}

\* ProfitCalculator::calculate_slippage, for an amount and for one at least
\* as large
CalculateSlippageCall ==
    /\ \E a \in SlippageAmounts : \E b \in {c \in SlippageAmounts : c >= a} :
            slipped' = [amount |-> a, slippage |-> calculate_slippage(settings, a),
                        larger_amount |-> b,
                        larger_slippage |-> calculate_slippage(settings, b)]
    /\ UNCHANGED <<engine_vars, now, strategy_vars, settings, scored, dex_vars>>

(***************************************************************************)
(* Part 4.  DexRegistry.  The adapters (serum, orca, raydium, jupiter,     *)
(* openbook) and the two lookups find_market and get_all_markets are not   *)
(* in the repository or are placeholders: they are modelled by their       *)
(* signatures, each call answering any Ok value of its type or an Err.     *)
(* Prices are whole numbers of price steps; profits are in basis points    *)
(* (hundredths of the percentage the code computes).                       *)
(***************************************************************************)
\* markets get_all_markets may return
MaxMarkets == 3

\* the vector dexes of get_best_execution_venue, in its order
Dexes == <<"serum", "orca", "raydium", "jupiter", "openbook">>

\* f64::MAX: greater than every price
f64_MAX == 2147483647

\* what one adapter answers in one call of get_best_execution_venue:
\* find_market, get_best_price (bid, ask) and get_liquidity, each Ok or Err
DexAnswer(found, price_ok, bid, ask, liquidity_ok, liquidity) ==
    [found |-> found, price_ok |-> price_ok, bid |-> bid, ask |-> ask,
     liquidity_ok |-> liquidity_ok, liquidity |-> liquidity]

\* (bid, ask) of get_best_price
VenueQuotes == {<<103, 105>>, <<100, 102>>, <<106, 108>>}

\* Ok values of get_liquidity
VenueLiquidities == {400, 600}

\* the amount argument
VenueAmounts == {500}

DexAnswers ==
    {DexAnswer(FALSE, FALSE, 0, 0, FALSE, 0), DexAnswer(TRUE, FALSE, 0, 0, FALSE, 0)}
    \cup {DexAnswer(TRUE, TRUE, q[1], q[2], FALSE, 0) : q \in VenueQuotes}
    \cup {DexAnswer(TRUE, TRUE, q[1], q[2], TRUE, l) :
            q \in VenueQuotes, l \in VenueLiquidities}

\* an adapter of the registry with its answers
Dex(name, answer) ==
    [name |-> name, found |-> answer.found, price_ok |-> answer.price_ok,
     bid |-> answer.bid, ask |-> answer.ask,
     liquidity_ok |-> answer.liquidity_ok, liquidity |-> answer.liquidity]

\* best_price and best_dex before the loop
NoBest == [best_price |-> f64_MAX, best_dex |-> "none"]

\* a slip: the liquidity is not compared with the amount
ConsiderDex_NoDepthCheck(best, dex, amount, is_buy) ==
    LET price == IF is_buy THEN dex.ask ELSE dex.bid
    IN  IF /\ dex.found
           /\ dex.price_ok
           /\ (is_buy /\ price < best.best_price)
              \/ (~is_buy /\ price > best.best_price)
           /\ dex.liquidity_ok
        THEN [best_price |-> price, best_dex |-> dex.name]
        ELSE best

\* a slip: <= for <, an equal price replaces the best one
ConsiderDex_LaterWinsTies(best, dex, amount, is_buy) ==
    LET price == IF is_buy THEN dex.ask ELSE dex.bid
    IN  IF /\ dex.found
           /\ dex.price_ok
           /\ (is_buy /\ price <= best.best_price)
              \/ (~is_buy /\ price > best.best_price)
           /\ dex.liquidity_ok
           /\ dex.liquidity >= amount
        THEN [best_price |-> price, best_dex |-> dex.name]
        ELSE best

\* get_best_execution_venue: the body of its loop
ConsiderDex(best, dex, amount, is_buy) ==
    LET price == IF is_buy THEN dex.ask ELSE dex.bid
    IN  IF /\ dex.found
           /\ dex.price_ok
           /\ (is_buy /\ price < best.best_price)
              \/ (~is_buy /\ price > best.best_price)
           /\ dex.liquidity_ok
           /\ dex.liquidity >= amount
        THEN [best_price |-> price, best_dex |-> dex.name]
        ELSE best

\* Result<(&dyn DexInterface, f64), ArbitrageError>
VenueResult(res, dex, price, error) ==
    [res |-> res, dex |-> dex, price |-> price, error |-> error]

get_best_execution_venue(dexes, amount, is_buy) ==
    LET Best[i \in 0..Len(dexes)] ==
            IF i = 0 THEN NoBest
            ELSE ConsiderDex(Best[i - 1], dexes[i], amount, is_buy)
        best == Best[Len(dexes)]
    IN  IF best.best_dex = "none"
        THEN VenueResult("err", "none", 0, "No suitable execution venue found")
        ELSE VenueResult("ok", best.best_dex, best.best_price, "")

\* MarketInfo with what its adapter answers to get_best_price(address)
MarketInfo(address, price_ok, bid, ask) ==
    [address |-> address, price_ok |-> price_ok, bid |-> bid, ask |-> ask]

\* (bid, ask) of get_best_price for the markets of get_all_markets
MarketQuotes == {<<100, 101>>, <<103, 104>>, <<101, 102>>, <<99, 100>>}

MarketAnswers ==
    {[price_ok |-> FALSE, bid |-> 0, ask |-> 0]}
    \cup {[price_ok |-> TRUE, bid |-> q[1], ask |-> q[2]] : q \in MarketQuotes}

\* Ok values of get_all_markets: the market at place i has address i
AllMarkets ==
    UNION {{[i \in 1..n |-> MarketInfo(i, a[i].price_ok, a[i].bid, a[i].ask)] :
                a \in [1..n -> MarketAnswers]} : n \in 0..MaxMarkets}

\* the min_profit_percentage argument, in basis points: 1 % and 2 %
MinProfitPercentages == {100, 200}

\* (bid / ask - 1.0) * 100.0, in basis points
SpreadOf(bid, ask) == ((bid * 10000) \div ask) - 10000

\* a slip: only the direction market1 to market2 is computed
calculate_cross_dex_profit_OneDirection(market1, market2) ==
    IF ~market1.price_ok \/ ~market2.price_ok
    THEN [res |-> "err", profit |-> 0, direction |-> "none"]
    ELSE [res |-> "ok", profit |-> SpreadOf(market2.bid, market1.ask),
          direction |-> "Market1ToMarket2"]

\* calculate_cross_dex_profit: profit1 > profit2 is bid2 / ask1 > bid1 / ask2
calculate_cross_dex_profit(market1, market2) ==
    IF ~market1.price_ok \/ ~market2.price_ok
    THEN [res |-> "err", profit |-> 0, direction |-> "none"]
    ELSE LET profit1 == SpreadOf(market2.bid, market1.ask)
             profit2 == SpreadOf(market1.bid, market2.ask)
         IN  IF market2.bid * market2.ask > market1.bid * market1.ask
             THEN [res |-> "ok", profit |-> profit1, direction |-> "Market1ToMarket2"]
             ELSE [res |-> "ok", profit |-> profit2, direction |-> "Market2ToMarket1"]

CrossDexOpportunity(source_market, target_market, profit_percentage, direction) ==
    [source_market |-> source_market, target_market |-> target_market,
     profit_percentage |-> profit_percentage, direction |-> direction]

\* Result<Vec<CrossDexOpportunity>, ArbitrageError>
CrossDexResult(res, found) == [res |-> res, opportunities |-> found]

\* a slip: calculate_cross_dex_profit(market1, market2).await? in the loop
get_cross_dex_opportunities_Propagates(markets, min_profit_percentage) ==
    LET pairs == PairsFrom(Len(markets), 1, 2)
        Found[x \in 0..Len(pairs)] ==
            IF x = 0 THEN <<>>
            ELSE LET market1 == markets[pairs[x][1]]
                     market2 == markets[pairs[x][2]]
                     p == calculate_cross_dex_profit(market1, market2)
                 IN  IF p.res = "ok" /\ p.profit >= min_profit_percentage
                     THEN Append(Found[x - 1],
                                 CrossDexOpportunity(market1.address, market2.address,
                                                     p.profit, p.direction))
                     ELSE Found[x - 1]
    IN  IF \E x \in 1..Len(pairs) :
                calculate_cross_dex_profit(markets[pairs[x][1]],
                                           markets[pairs[x][2]]).res = "err"
        THEN CrossDexResult("err", <<>>)
        ELSE CrossDexResult("ok", Found[Len(pairs)])

\* get_cross_dex_opportunities, once get_all_markets has returned markets
get_cross_dex_opportunities(markets, min_profit_percentage) ==
    LET pairs == PairsFrom(Len(markets), 1, 2)
        Found[x \in 0..Len(pairs)] ==
            IF x = 0 THEN <<>>
            ELSE LET market1 == markets[pairs[x][1]]
                     market2 == markets[pairs[x][2]]
                     p == calculate_cross_dex_profit(market1, market2)
                 IN  IF p.res = "ok" /\ p.profit >= min_profit_percentage
                     THEN Append(Found[x - 1],
                                 CrossDexOpportunity(market1.address, market2.address,
                                                     p.profit, p.direction))
                     ELSE Found[x - 1]
    IN  CrossDexResult("ok", Found[Len(pairs)])

\* no call of get_best_execution_venue yet
NoVenueCall ==
    [dexes |-> <<>>, amount |-> 0, is_buy |-> TRUE,
     res |-> VenueResult("none", "none", 0, "")]

\* no call of get_cross_dex_opportunities yet
NoCrossDexCall ==
    [all_markets_ok |-> FALSE, markets |-> <<>>, min_profit_percentage |-> 0,
     res |-> CrossDexResult("none", <<>>)]

\* DexRegistry::new
DexRegistryNew ==
    /\ best_venue = NoVenueCall
    /\ cross_dex = NoCrossDexCall

\* DexRegistry::get_best_execution_venue
GetBestExecutionVenue ==
    /\ best_venue = NoVenueCall /\ cross_dex = NoCrossDexCall
    /\ \E answers \in [1..Len(Dexes) -> DexAnswers] :
       \E amount \in VenueAmounts : \E is_buy \in BOOLEAN :
            LET dexes == [i \in 1..Len(Dexes) |-> Dex(Dexes[i], answers[i])]
            IN  best_venue' = [dexes |-> dexes, amount |-> amount, is_buy |-> is_buy,
                               res |-> get_best_execution_venue(dexes, amount, is_buy)]
    /\ UNCHANGED <<engine_vars, now, strategy_vars, profit_vars, cross_dex>>

\* DexRegistry::get_cross_dex_opportunities: get_all_markets(token_pair)?
\* returns markets or fails
GetCrossDexOpportunities ==
    /\ best_venue = NoVenueCall /\ cross_dex = NoCrossDexCall
    /\ \E min_profit_percentage \in MinProfitPercentages :
        \/ \E markets \in AllMarkets :
                cross_dex' = [all_markets_ok |-> TRUE, markets |-> markets,
                              min_profit_percentage |-> min_profit_percentage,
                              res |-> get_cross_dex_opportunities(
                                            markets, min_profit_percentage)]
        \/ cross_dex' = [all_markets_ok |-> FALSE, markets |-> <<>>,
                         min_profit_percentage |-> min_profit_percentage,
                         res |-> CrossDexResult("err", <<>>)]
    /\ UNCHANGED <<engine_vars, now, strategy_vars, profit_vars, best_venue>>

(***************************************************************************)
(* The specifications.                                                     *)
(***************************************************************************)
Init == EngineInit /\ StrategiesNew /\ CalculatorNew /\ DexRegistryNew

Next == EngineStep

\* Part 1: the engine
Spec == Init /\ [][Next]_vars

\* the runtime keeps polling the task of start
FairSpec == Spec /\ WF_vars(EngineStep)

StrategyInit ==
    /\ EngineInit
    /\ strategy_market_states \in MarketStateTables
    /\ pending_transactions \in PendingQueues
    /\ analyzed = NotAnalyzed
    /\ validated = NotValidated
    /\ built = NotBuilt
    /\ sized = NotSized
    /\ initialized = NotInitialized
    /\ CalculatorNew
    /\ DexRegistryNew

StrategyNext ==
    \/ AnalyzeJit
    \/ AnalyzeFlashLoan
    \/ AnalyzeFrontRunning
    \/ ValidateJit
    \/ ValidateFlashLoan
    \/ ValidateFrontRunning
    \/ BuildArbitrageTransaction
    \/ CalculateOptimalPosition
    \/ CalculateOptimalSize
    \/ BuildArbitrageTransactionTriangular
    \/ InitializeStrategies

\* Part 2: the strategies and the builder
StrategySpec == StrategyInit /\ [][StrategyNext]_vars

ProfitInit ==
    /\ EngineInit
    /\ StrategiesNew
    /\ settings \in {[CalculatorSettings(m, e) EXCEPT !.max_loss_threshold = l] :
                        m \in ScoredAmounts, e \in BOOLEAN, l \in LossThresholds}
    /\ scored = NotScored
    /\ slipped = NotSlipped
    /\ DexRegistryNew

ProfitNext ==
    \/ IsProfitableCall
    \/ CalculateSlippageCall

\* Part 3: the profit calculator
ProfitSpec == ProfitInit /\ [][ProfitNext]_vars

DexInit == EngineInit /\ StrategiesNew /\ CalculatorNew /\ DexRegistryNew

DexNext ==
    \/ GetBestExecutionVenue
    \/ GetCrossDexOpportunities

\* Part 4: the registry of venues
DexSpec == DexInit /\ [][DexNext]_vars

(***************************************************************************)
(* Claims about the engine.                                                *)
(***************************************************************************)
Last(s) == s[Len(s)]

Executed(op) == op \in {"build", "simulate", "send", "confirm"}

\* the addresses the Market State Cache holds
Cached == {market_states[i].market_address : i \in 1..Len(market_states)}

\* C2: in execute_arbitrage every call of send_transaction comes after a
\* simulation of the same candidate's transaction that returned true, and no
\* send follows a simulation that returned false or failed.
C2_SendOnlyAfterSimulationTrue ==
    /\ \A k \in 1..Len(log) :
        log[k].op = "send" =>
            \E j \in 1..(k - 1) :
                /\ log[j].op = "simulate"
                /\ log[j].opp = log[k].opp
                /\ log[j].res = "true"
    /\ \A j \in 1..Len(log) :
        (log[j].op = "simulate" /\ log[j].res # "true") =>
            ~\E k \in 1..Len(log) : log[k].op = "send" /\ log[k].opp = log[j].opp

\* C2: one candidate's simulation returned false, another's failed, and the
\* cycle still sent a transaction
C2_Witness ==
    /\ \E j \in 1..Len(log) : log[j].op = "simulate" /\ log[j].res = "false"
    /\ \E j \in 1..Len(log) : log[j].op = "send"

\* C6 (the claim as stated): validate_opportunity returns true only for a
\* candidate that is at most 5 seconds old and whose every leg names a
\* market the Market State Cache holds.
C6_ValidateRejectsAbsentMarket ==
    \A k \in 1..Len(log) :
        (log[k].op = "validate" /\ log[k].res = "true") =>
            /\ log[k].age <= 5
            /\ \A s \in 1..Len(opportunities[log[k].opp].route) :
                    opportunities[log[k].opp].route[s] \in Cached

\* C7: within one cycle a candidate is built, simulated, sent or confirmed
\* only after validate_opportunity and then is_profitable returned true for
\* it; a candidate that fails either gate is never executed.
C7_ExecuteOnlyAfterBothGates ==
    /\ \A k \in 1..Len(log) :
        Executed(log[k].op) =>
            \E i \in 1..(k - 1) : \E j \in (i + 1)..(k - 1) :
                /\ log[i] = Event("validate", log[k].opp, "true", log[i].age)
                /\ log[j] = Event("is_profitable", log[k].opp, "true", 0)
    /\ \A j \in 1..Len(log) :
        (log[j].op \in {"validate", "is_profitable"} /\ log[j].res # "true") =>
            ~\E k \in 1..Len(log) : Executed(log[k].op) /\ log[k].opp = log[j].opp

\* C7: one candidate failed the profitability gate and a later one of the
\* same cycle passed both gates and was sent
C7_Witness ==
    /\ \E j \in 1..Len(log) : log[j].op = "is_profitable" /\ log[j].res = "false"
    /\ \E k \in 1..Len(log) : log[k].op = "send"

\* the cycle that filled the log is over
CycleOver == pc \in {"cycle_ok", "backoff"}

\* C8 (the claim as stated): an error while validating, scoring or executing
\* one candidate only skips that candidate: when a cycle that found
\* candidates is over, every one of them has been processed, and start has
\* not returned.
C8_ErrorSkipsOnlyTheCandidate ==
    /\ (CycleOver /\ log[1].res = "ok") =>
            \A i \in 1..Len(opportunities) :
                \E k \in 1..Len(log) : log[k].op = "validate" /\ log[k].opp = i
    /\ (Len(log) > 0) => pc # "returned"

\* C9: once initialisation has succeeded start never returns, a failed
\* cycle is followed by the back-off and then the loop's next turn, and a
\* new cycle begins again and again.
C9_FailedCycleIsNeverFatal ==
    /\ [][pc' = "returned" => pc \in {"fetch", "returned"}]_vars
    /\ [][(pc \in {"cycle", "validate", "is_profitable"} /\ pc' # pc
           /\ Last(log').res = "err") => pc' = "backoff"]_vars
    /\ [](pc \notin {"init", "fetch", "returned"} => <>(pc = "cycle"))

\* C9: scoring the second candidate of a cycle failed, and start is about to
\* log the error and sleep
C9_Witness ==
    /\ pc = "backoff"
    /\ Last(log) = Event("is_profitable", 2, "err", 0)

\* C10 (the claim as stated): when send_transaction or confirm_transaction
\* fails, execute_arbitrage returns Ok(ExecutionResult) with success = false
\* and an error text, not an Err.
C10_SubmissionFailureIsCaptured ==
    (Len(log) > 0 /\ Last(log).op \in {"send", "confirm"} /\ Last(log).res = "err") =>
        /\ exec_result.kind = "Ok"
        /\ ~exec_result.success
        /\ exec_result.error # ""

\* C11: within one cycle send_transaction is called at most once for a
\* candidate, and after a failed send_transaction or confirm_transaction
\* every later call of the cycle is about a later candidate.
C11_SendAtMostOnce ==
    /\ \A j \in 1..Len(log) : \A k \in 1..Len(log) :
        (log[j].op = "send" /\ log[k].op = "send" /\ log[j].opp = log[k].opp)
            => j = k
    /\ \A j \in 1..Len(log) :
        (log[j].op \in {"send", "confirm"} /\ log[j].res = "err") =>
            \A k \in (j + 1)..Len(log) : log[k].opp > log[j].opp

\* C11: the first candidate's submission failed, the second candidate's
\* confirmation failed, and the cycle is over
C11_Witness ==
    /\ CycleOver
    /\ \E j \in 1..Len(log) : log[j] = Event("send", 1, "err", 0)
    /\ \E k \in 1..Len(log) : log[k] = Event("confirm", 2, "err", 0)

\* C12 (the claim as stated): fetch_market_state is never called while the
\* write lock of the Market State Cache is held.
C12_NoFetchUnderWriteLock == pc = "fetch" => lock # "write"

\* C13 (the claim as stated): when find_opportunities runs, every market
\* state it reads was polled in the same cycle, so none is older than the
\* last reading of the clock before the cycle began.
C13_DetectionReadsStatesPolledThisCycle ==
    [][(pc = "cycle" /\ pc' # "cycle") =>
            \A i \in 1..Len(market_states) : market_states[i].last_update >= now]_vars

\* C14 (the claim as stated): whatever fetch_market_state returns for a
\* market, start does not return.
C14_FetchFailureIsNotFatal == [][pc = "fetch" => pc' # "returned"]_vars

(***************************************************************************)
(* Claims about the registry of venues.                                    *)
(***************************************************************************)
\* the venues of the last call whose queries succeeded and whose liquidity
\* is at least the requested amount
DeepVenues ==
    {i \in 1..Len(best_venue.dexes) :
        LET dex == best_venue.dexes[i]
        IN  /\ dex.found /\ dex.price_ok /\ dex.liquidity_ok
            /\ dex.liquidity >= best_venue.amount}

\* C15: for a buy with at least one venue deep enough,
\* get_best_execution_venue returns a venue deep enough whose ask is the
\* lowest among the venues deep enough, with that ask as the price, and
\* among venues with that ask the first in the registry's order.
C15_BuyTakesLowestAskFirstOnTies ==
    (best_venue.res.res # "none" /\ best_venue.is_buy /\ DeepVenues # {}) =>
        \E i \in DeepVenues :
            /\ best_venue.res =
                    VenueResult("ok", best_venue.dexes[i].name,
                                best_venue.dexes[i].ask, "")
            /\ \A j \in DeepVenues :
                    /\ best_venue.dexes[j].ask >= best_venue.dexes[i].ask
                    /\ best_venue.dexes[j].ask = best_venue.dexes[i].ask => j >= i

\* C15: asks 105, 102 and 108 at the first three venues for a buy of 500,
\* the first two venues deep enough: the second venue is returned at 102
C15_Witness ==
    /\ best_venue.is_buy /\ best_venue.amount = 500
    /\ best_venue.dexes[1].ask = 105 /\ best_venue.dexes[1].liquidity = 600
    /\ best_venue.dexes[2].ask = 102 /\ best_venue.dexes[2].liquidity = 600
    /\ best_venue.dexes[3].ask = 108 /\ best_venue.dexes[3].liquidity = 400
    /\ DeepVenues = {1, 2}
    /\ best_venue.res = VenueResult("ok", "orca", 102, "")

\* C16 (the claim as stated): for a sell with at least one venue deep
\* enough, get_best_execution_venue returns a venue deep enough whose bid is
\* the highest among the venues deep enough.
C16_SellTakesHighestBid ==
    (best_venue.res.res # "none" /\ ~best_venue.is_buy /\ DeepVenues # {}) =>
        \E i \in DeepVenues :
            /\ best_venue.res =
                    VenueResult("ok", best_venue.dexes[i].name,
                                best_venue.dexes[i].bid, "")
            /\ \A j \in DeepVenues :
                    best_venue.dexes[j].bid <= best_venue.dexes[i].bid

\* C17: when no venue reports liquidity of at least the requested amount,
\* get_best_execution_venue returns the error "No suitable execution venue
\* found"; a venue it returns is deep enough and the price is that venue's
\* quote.
C17_NoDeepVenueIsAnError ==
    best_venue.res.res # "none" =>
        /\ DeepVenues = {} =>
                best_venue.res =
                    VenueResult("err", "none", 0, "No suitable execution venue found")
        /\ best_venue.res.res = "ok" =>
                \E i \in DeepVenues :
                    /\ best_venue.res.dex = best_venue.dexes[i].name
                    /\ best_venue.res.price =
                            IF best_venue.is_buy THEN best_venue.dexes[i].ask
                            ELSE best_venue.dexes[i].bid

\* C17: a buy of 500 where each of the five venues quotes a price and
\* reports liquidity 400: the error is returned
C17_Witness ==
    /\ best_venue.is_buy /\ best_venue.amount = 500
    /\ Len(best_venue.dexes) = 5
    /\ \A i \in 1..Len(best_venue.dexes) :
            /\ best_venue.dexes[i].price_ok
            /\ best_venue.dexes[i].liquidity_ok
            /\ best_venue.dexes[i].liquidity = 400
    /\ best_venue.res.res = "err"

\* the registry without the venues whose price or liquidity query fails
WorkingDexes(dexes) ==
    SelectSeq(dexes, LAMBDA dex : ~(dex.found /\ (~dex.price_ok \/ ~dex.liquidity_ok)))

\* the markets without those whose price query fails
WorkingMarkets(markets) == SelectSeq(markets, LAMBDA market : market.price_ok)

\* C18: get_best_execution_venue and get_cross_dex_opportunities return
\* what they return for the registry without the venues whose price or
\* liquidity query fails, and nothing they return names such a venue.
C18_FailingVenueIsSkipped ==
    /\ best_venue.res.res # "none" =>
            best_venue.res =
                get_best_execution_venue(WorkingDexes(best_venue.dexes),
                                         best_venue.amount, best_venue.is_buy)
    /\ cross_dex.all_markets_ok =>
            /\ cross_dex.res =
                    get_cross_dex_opportunities(WorkingMarkets(cross_dex.markets),
                                                cross_dex.min_profit_percentage)
            /\ \A x \in 1..Len(cross_dex.res.opportunities) :
                    /\ cross_dex.markets[
                            cross_dex.res.opportunities[x].source_market].price_ok
                    /\ cross_dex.markets[
                            cross_dex.res.opportunities[x].target_market].price_ok

\* C18: of three markets the second one's price query failed, and the pair
\* of the first and the third is reported
C18_Witness ==
    /\ Len(cross_dex.markets) = 3
    /\ ~cross_dex.markets[2].price_ok
    /\ cross_dex.res.res = "ok"
    /\ Len(cross_dex.res.opportunities) = 1
    /\ cross_dex.res.opportunities[1].source_market = 1
    /\ cross_dex.res.opportunities[1].target_market = 3

\* C19: get_cross_dex_opportunities returns Ok with, for every pair of
\* places i < j of quoted markets, one opportunity if the larger of the two
\* directional spreads is at least the minimum and none otherwise; the
\* opportunity carries the larger spread and the direction that earns it.
C19_EveryPairOnceWithLargerSpread ==
    cross_dex.all_markets_ok =>
        LET markets == cross_dex.markets
            found == cross_dex.res.opportunities
            Spread12(i, j) == SpreadOf(markets[j].bid, markets[i].ask)
            Spread21(i, j) == SpreadOf(markets[i].bid, markets[j].ask)
            Larger(i, j) == IF Spread12(i, j) >= Spread21(i, j)
                            THEN Spread12(i, j) ELSE Spread21(i, j)
        IN  /\ cross_dex.res.res = "ok"
            /\ \A i \in 1..Len(markets) : \A j \in (i + 1)..Len(markets) :
                    (markets[i].price_ok /\ markets[j].price_ok) =>
                        Cardinality({x \in 1..Len(found) :
                                        /\ found[x].source_market = i
                                        /\ found[x].target_market = j})
                        = IF Larger(i, j) >= cross_dex.min_profit_percentage
                          THEN 1 ELSE 0
            /\ \A x \in 1..Len(found) :
                    LET i == found[x].source_market
                        j == found[x].target_market
                    IN  /\ i < j
                        /\ markets[i].price_ok /\ markets[j].price_ok
                        /\ found[x].profit_percentage = Larger(i, j)
                        /\ Spread12(i, j) > Spread21(i, j)
                                => found[x].direction = "Market1ToMarket2"
                        /\ Spread21(i, j) > Spread12(i, j)
                                => found[x].direction = "Market2ToMarket1"

\* C19: bid 100 and ask 101 on the first market, bid 103 and ask 104 on the
\* second, a minimum of 1 %: one opportunity of 1.98 %, buying on the first
\* and selling on the second
C19_Witness ==
    /\ cross_dex.markets = <<MarketInfo(1, TRUE, 100, 101), MarketInfo(2, TRUE, 103, 104)>>
    /\ cross_dex.min_profit_percentage = 100
    /\ cross_dex.res =
            CrossDexResult("ok", <<CrossDexOpportunity(1, 2, 198, "Market1ToMarket2")>>)

(***************************************************************************)
(* Claims about the strategies, the builder and the profit calculator.     *)
(***************************************************************************)
\* C1: for every opportunity the flash-loan strategy produced, the
\* instruction sequence build_arbitrage_transaction assembles starts with
\* the borrow instruction and ends with the repay instruction, and every
\* trade, settlement and MEV-protection instruction lies strictly between
\* the two.
C1_BorrowFirstRepayLast ==
    (analyzed.strategy = "flash_loan" /\ built.res = "ok") =>
        LET ix == built.instructions
        IN  /\ Len(ix) >= 2
            /\ ix[1].kind = "flash_loan"
            /\ ix[Len(ix)].kind = "repayment"
            /\ \A k \in 1..Len(ix) :
                    ix[k].kind \notin {"flash_loan", "repayment"}
                        => (1 < k /\ k < Len(ix))
            /\ \A k \in 2..(Len(ix) - 1) :
                    ix[k].kind \notin {"flash_loan", "repayment"}

\* C1: a flash-loan opportunity was built with MEV protection on: trades,
\* settlements and protection instructions are in the sequence
C1_Witness ==
    /\ analyzed.strategy = "flash_loan"
    /\ built.res = "ok"
    /\ \E k \in 1..Len(built.instructions) :
            built.instructions[k].kind = "market_sell"
    /\ \E k \in 1..Len(built.instructions) :
            built.instructions[k].kind = "sandwich_protection"

\* C3: validate of a strategy returns false for every opportunity older
\* than the strategy's freshness window (5 s for the round-trip strategy,
\* 3 s for the flash-loan strategy, 1 s for the pre-emption strategy),
\* whatever the market states are.
C3_StaleOpportunityIsRejected ==
    LET window == CASE analyzed.strategy = "jit" -> 5
                    [] analyzed.strategy = "flash_loan" -> 3
                    [] OTHER -> 1
    IN  (validated.res # "none" /\ validated.age > window)
            => validated.res = "false"

\* C3: a flash-loan opportunity 4 seconds old, whose markets are in the
\* table and still suitable, was validated and rejected
C3_Witness ==
    /\ analyzed.strategy = "flash_loan"
    /\ validated.res = "false"
    /\ validated.age = 4
    /\ LET o == analyzed.opportunities[validated.opportunity]
       IN  are_markets_suitable(
                get_market_state(strategy_market_states, o.source_market),
                get_market_state(strategy_market_states, o.target_market))

\* C4: is_profitable never returns true for an opportunity whose
\* required_amount is greater than max_position_size, however large its
\* total profit.
C4_OversizedIsNeverProfitable ==
    (scored.res # "none"
     /\ scored.opportunity.required_amount > settings.max_position_size)
        => scored.res # "true"

\* C4: an opportunity larger than max_position_size was scored, its total
\* profit met the threshold, and is_profitable returned false
C4_Witness ==
    /\ scored.opportunity.required_amount > settings.max_position_size
    /\ scored.total_profit.res = "ok"
    /\ scored.total_profit.value >= settings.min_profit_threshold
    /\ scored.res = "false"

C21_SlippageMonotoneAndCapped ==
    slipped # NotSlipped =>
        /\ slipped.slippage <= slipped.larger_slippage
        /\ slipped.slippage <= settings.slippage_tolerance
        /\ slipped.larger_slippage <= settings.slippage_tolerance

\* C21: an amount under the cap and a larger one over it: the estimate
\* grows with the amount and stops at slippage_tolerance
C21_Witness ==
    /\ slipped.amount = 2500000
    /\ slipped.larger_amount = 20000000
    /\ slipped.slippage = 2500
    /\ slipped.slippage < slipped.larger_slippage
    /\ slipped.larger_slippage = settings.slippage_tolerance

\* C22: in the list analyze returns, of each strategy, every opportunity's
\* profit_percentage is at least that of the opportunity after it.
C22_OpportunitiesSortedByProfit ==
    \A i \in 1..(Len(analyzed.opportunities) - 1) :
        analyzed.opportunities[i].profit_percentage
            >= analyzed.opportunities[i + 1].profit_percentage

\* C22: the pre-emption strategy found two opportunities, the less
\* profitable one first in the queue, and returned the other one first
C22_Witness ==
    /\ analyzed.strategy = "front_running"
    /\ Len(analyzed.opportunities) = 2
    /\ Len(pending_transactions) = 2
    /\ pending_transactions[1].side # pending_transactions[2].side
    /\ Last(analyzed.opportunities[1].route).side = pending_transactions[2].side
    /\ analyzed.opportunities[1].profit_percentage
            > analyzed.opportunities[2].profit_percentage

\* C23 (the claim as stated): the position size the pre-emption strategy
\* computes, and gives to an opportunity as required_amount and as the
\* amount of both legs, never exceeds max_position_size.
C23_PositionNeverExceedsCap ==
    /\ sized.strategy = "front_running"
            => sized.size <= max_position_size \div 1000
    /\ analyzed.strategy = "front_running"
            => \A i \in 1..Len(analyzed.opportunities) :
                LET opp == analyzed.opportunities[i]
                IN  /\ opp.required_amount <= max_position_size
                    /\ \A k \in 1..Len(opp.route) :
                            opp.route[k].amount <= max_position_size

\* C24: the trade size of an opportunity of the borrowed-capital strategy,
\* and the size calculate_optimal_size answers for any two depths, is the
\* minimum of the two markets' liquidity, max_position_size and the
\* flash-loan limit, so it exceeds none of them.
C24_SizeIsMinimumOfDepthsAndCaps ==
    /\ sized.strategy = "flash_loan"
            => /\ sized.size \in {sized.liquidity1, sized.liquidity2,
                                  max_position_size, get_flash_loan_limit}
               /\ sized.size <= sized.liquidity1
               /\ sized.size <= sized.liquidity2
               /\ sized.size <= max_position_size
               /\ sized.size <= get_flash_loan_limit
    /\ analyzed.strategy = "flash_loan"
            => \A i \in 1..Len(analyzed.opportunities) :
                LET opp == analyzed.opportunities[i]
                    liquidity1 == get_liquidity(get_market_state(
                                    strategy_market_states, opp.source_market))
                    liquidity2 == get_liquidity(get_market_state(
                                    strategy_market_states, opp.target_market))
                IN  /\ opp.required_amount \in {liquidity1, liquidity2,
                                    max_position_size, get_flash_loan_limit}
                    /\ opp.required_amount <= liquidity1
                    /\ opp.required_amount <= liquidity2
                    /\ opp.required_amount <= max_position_size
                    /\ opp.required_amount <= get_flash_loan_limit

\* C24: two markets of different depth, both deeper than the position cap:
\* the size is the cap
C24_Witness ==
    /\ sized.strategy = "flash_loan"
    /\ sized.liquidity1 > sized.liquidity2
    /\ sized.liquidity2 > max_position_size
    /\ sized.size = max_position_size

\* C25: the instructions of a built transaction are, after the borrow
\* instruction if there is one, one group per TradeStep in route order, and
\* each group is the trade instruction of the step, the settlement
\* instruction, then the guards whose flag is set (front-running,
\* back-running, sandwich, in that order) and none if
\* mev_protection.enabled is false.
C25_GuardsDoNotReorderLegs ==
    built.res = "ok" =>
        LET ix == built.instructions
            mev == built.mev
            guards ==
                IF mev.enabled
                THEN (IF mev.frontrunning_detection
                      THEN <<"frontrunning_protection">> ELSE <<>>)
                     \o (IF mev.backrunning_detection
                         THEN <<"backrunning_protection">> ELSE <<>>)
                     \o (IF mev.sandwich_detection
                         THEN <<"sandwich_protection">> ELSE <<>>)
                ELSE <<>>
            group == 2 + Len(guards)
            first == IF Len(ix) > 0 /\ ix[1].kind = "flash_loan" THEN 1 ELSE 0
        IN  /\ Len(ix) >= first + group * Len(built.route)
            /\ Len(ix) <= first + group * Len(built.route) + 1
            /\ \A k \in 1..Len(built.route) :
                LET at == first + group * (k - 1)
                IN  /\ ix[at + 1].kind = (IF built.route[k].side = "Buy"
                                          THEN "market_buy" ELSE "market_sell")
                    /\ ix[at + 1].market = built.route[k].market
                    /\ ix[at + 1].amount = built.route[k].amount
                    /\ ix[at + 2].kind = "settlement"
                    /\ \A j \in 1..Len(guards) : ix[at + 2 + j].kind = guards[j]

\* C25: a route of a sell and a buy was built with protection enabled, the
\* first guard off and the other two on
C25_Witness ==
    /\ built.res = "ok"
    /\ Len(built.route) = 2
    /\ built.route[1].side = "Sell"
    /\ built.mev.enabled
    /\ ~built.mev.frontrunning_detection
    /\ built.mev.backrunning_detection
    /\ built.mev.sandwich_detection
    /\ Len(built.instructions) = 8

\* C27 (the claim as stated): a built transaction holds a borrow
\* instruction, and a repay instruction, if and only if the route has a
\* borrow leg; a route of three legs on three markets gets neither.
C27_BorrowAndRepayIffBorrowedCapital ==
    built.res = "ok" =>
        LET borrows == \E k \in 1..Len(built.route) :
                            built.route[k].market = DefaultPubkey
        IN  /\ (\E k \in 1..Len(built.instructions) :
                    built.instructions[k].kind = "flash_loan") <=> borrows
            /\ (\E k \in 1..Len(built.instructions) :
                    built.instructions[k].kind = "repayment") <=> borrows

\* C28 (the claim as stated): the transaction built for a route of the
\* borrowed-capital strategy holds one borrow instruction, one repay
\* instruction and two market trade instructions, none of them on the
\* placeholder market of the borrow and repay legs.
C28_BorrowedRouteHasTwoTradeGroups ==
    (analyzed.strategy = "flash_loan" /\ built.res = "ok") =>
        LET ix == built.instructions
            trades == {k \in 1..Len(ix) : ix[k].kind \in {"market_buy", "market_sell"}}
        IN  /\ Cardinality({k \in 1..Len(ix) : ix[k].kind = "flash_loan"}) = 1
            /\ Cardinality({k \in 1..Len(ix) : ix[k].kind = "repayment"}) = 1
            /\ Cardinality(trades) = 2
            /\ \A k \in trades : ix[k].market # DefaultPubkey

\* C29 (the claim as stated): every leg of every opportunity a strategy
\* emitted from a market-state table is on a market that the lookup of the
\* Profit Calculator finds in that table, so that scoring the opportunity
\* does not end in 'Market state not found'.
C29_EmittedOpportunityCanBeScored ==
    \A i \in 1..Len(analyzed.opportunities) :
        \A k \in 1..Len(analyzed.opportunities[i].route) :
            HasMarketState(strategy_market_states,
                           analyzed.opportunities[i].route[k].market)

\* C26: initialize_strategies returns Ok with exactly one strategy for each
\* of the names jit, flash_loan and front_running that the list holds, and
\* nothing else, whatever the order and the repetitions of the list: three
\* strategies when all three names are listed.
C26_OneStrategyPerListedName ==
    initialized.called =>
        LET listed(name) ==
                \E i \in 1..Len(initialized.execution_strategies) :
                    initialized.execution_strategies[i] = name
            made(strategy) ==
                Cardinality({i \in 1..Len(initialized.strategies) :
                                initialized.strategies[i] = strategy})
        IN  /\ initialized.ok
            /\ made("JitLiquidityStrategy") = (IF listed("jit") THEN 1 ELSE 0)
            /\ made("FlashLoanStrategy") = (IF listed("flash_loan") THEN 1 ELSE 0)
            /\ made("FrontRunningStrategy")
                    = (IF listed("front_running") THEN 1 ELSE 0)
            /\ Len(initialized.strategies)
                    = made("JitLiquidityStrategy") + made("FlashLoanStrategy")
                      + made("FrontRunningStrategy")
            /\ (listed("jit") /\ listed("flash_loan") /\ listed("front_running"))
                    => Len(initialized.strategies) = 3

\* C26: a list with a name twice and the names out of order, and the two
\* strategies made for it
C26_Witness ==
    /\ initialized.called
    /\ initialized.execution_strategies = <<"flash_loan", "jit", "flash_loan">>
    /\ initialized.strategies = <<"JitLiquidityStrategy", "FlashLoanStrategy">>

C5_CrossedBookIsExcluded ==
    \A i \in 1..Len(analyzed.opportunities) :
        \A k \in 1..Len(analyzed.opportunities[i].route) :
            LET market == analyzed.opportunities[i].route[k].market
            IN  HasMarketState(strategy_market_states, market) =>
                    LET market_state ==
                            get_market_state(strategy_market_states, market)
                    IN  market_state.best_bid <= market_state.best_ask

====
